---- MODULE Spec2Model ----
(***************************************************************************)
(* Model of the ai-briefings scripts:                                      *)
(*   scripts/md_to_html.py     markdown_to_html, convert_table, main       *)
(*   scripts/generate_index.py generate_index and its command line         *)
(* Text is a sequence of one-character strings, so that every regular      *)
(* expression of the converter is computed character by character.         *)
(***************************************************************************)
EXTENDS Integers, Sequences, FiniteSets, TLC

VARIABLES
    pc,         \* position inside markdown_to_html
    md_text,    \* the argument of markdown_to_html
    title,      \* the extracted title
    html,       \* the local variable html
    html_in,    \* the value of html read by the statement executed last
    lines,      \* the local variable lines (html.split('\n'))
    result,     \* the local variable result of the table scan
    paragraphs, \* the local variable paragraphs
    files,      \* the output directory: file name -> content
    op,         \* the command that ran last
    argv,       \* its arguments (sys.argv[1:])
    rc,         \* its exit status
    out         \* what it printed

mdvars  == <<pc, md_text, title, html, html_in, lines, result, paragraphs>>
clivars == <<files, op, argv, rc, out>>
vars    == <<pc, md_text, title, html, html_in, lines, result, paragraphs,
             files, op, argv, rc, out>>

(***************************************************************************)
(* Bounds of the model.                                                    *)
(***************************************************************************)
MaxLen == 5
MaxEmLen == 8
MaxCols == 2
MaxArgs == 3

(***************************************************************************)
(* Strings.                                                                *)
(***************************************************************************)
NL == "\n"

\* Python's \s and str.strip() whitespace
IsSpace(c) == c \in {" ", "\t", "\n", "\r", "\f"}

StartsWithAt(s, i, p) ==
    /\ i >= 1
    /\ i + Len(p) - 1 <= Len(s)
    /\ \A k \in 1..Len(p) : s[i + k - 1] = p[k]

StartsWith(s, p) == StartsWithAt(s, 1, p)

Contains(s, p) == \E i \in 1..(Len(s) + 1) : StartsWithAt(s, i, p)

\* the characters of s from position i to its end
From(s, i) == SubSeq(s, i, Len(s))

\* last position of the run of non-newline characters that starts at g
RECURSIVE LineEnd(_, _)
LineEnd(s, g) ==
    IF g < Len(s) /\ s[g + 1] # NL THEN LineEnd(s, g + 1) ELSE g

\* first position at or after j that holds no whitespace (Len(s)+1 if none)
RECURSIVE SkipSpace(_, _)
SkipSpace(s, j) ==
    IF j <= Len(s) /\ IsSpace(s[j]) THEN SkipSpace(s, j + 1) ELSE j

\* str.split(sep) for a non-empty separator
RECURSIVE SplitFrom(_, _, _, _)
SplitFrom(s, sep, i, start) ==
    IF i > Len(s) THEN <<SubSeq(s, start, Len(s))>>
    ELSE IF StartsWithAt(s, i, sep)
         THEN <<SubSeq(s, start, i - 1)>>
              \o SplitFrom(s, sep, i + Len(sep), i + Len(sep))
         ELSE SplitFrom(s, sep, i + 1, start)

Split(s, sep) == SplitFrom(s, sep, 1, 1)

\* sep.join(parts)
RECURSIVE Join(_, _)
Join(parts, sep) ==
    IF Len(parts) = 0 THEN <<>>
    ELSE IF Len(parts) = 1 THEN parts[1]
    ELSE parts[1] \o sep \o Join(Tail(parts), sep)

\* str.strip()
RECURSIVE LStrip(_)
LStrip(s) == IF Len(s) > 0 /\ IsSpace(s[1]) THEN LStrip(Tail(s)) ELSE s

RECURSIVE RStrip(_)
RStrip(s) ==
    IF Len(s) > 0 /\ IsSpace(s[Len(s)]) THEN RStrip(SubSeq(s, 1, Len(s) - 1)) ELSE s

Strip(s) == RStrip(LStrip(s))

(***************************************************************************)
(* The regular expressions of markdown_to_html.                            *)
(***************************************************************************)
AtLineStart(s, i) == i = 1 \/ s[i - 1] = NL

\* ^marker\s+(.+)$ with re.MULTILINE, tried at position i: the position where
\* group 1 starts, 0 when there is no match. \s+ is greedy and matches line
\* breaks; it gives characters back only when nothing is left for (.+).
PrefixGroupStart(s, i, marker) ==
    LET j == i + Len(marker)
        w == SkipSpace(s, j)
        back == {p \in (j + 1)..Len(s) : s[p] # NL}
    IN  IF ~(AtLineStart(s, i) /\ StartsWithAt(s, i, marker)) THEN 0
        ELSE IF w = j THEN 0
        ELSE IF w <= Len(s) THEN w
        ELSE IF back = {} THEN 0
        ELSE CHOOSE p \in back : \A q \in back : q <= p

\* re.sub(r'^marker\s+(.+)$', open \1 close, s, flags=re.MULTILINE)
RECURSIVE PrefixSubFrom(_, _, _, _, _)
PrefixSubFrom(s, i, marker, open, close) ==
    IF i > Len(s) THEN <<>>
    ELSE LET g == PrefixGroupStart(s, i, marker)
         IN  IF g = 0
             THEN <<s[i]>> \o PrefixSubFrom(s, i + 1, marker, open, close)
             ELSE open \o SubSeq(s, g, LineEnd(s, g)) \o close
                  \o PrefixSubFrom(s, LineEnd(s, g) + 1, marker, open, close)

PrefixSub(s, marker, open, close) == PrefixSubFrom(s, 1, marker, open, close)

\* delim(.+?)delim tried at position i: the length of group 1 (the shortest
\* non-empty run without a line break that is followed by delim), 0 if none
RECURSIVE LazyLen(_, _, _, _)
LazyLen(s, c, k, delim) ==
    IF c + k - 1 > Len(s) \/ s[c + k - 1] = NL THEN 0
    ELSE IF StartsWithAt(s, c + k, delim) THEN k
    ELSE LazyLen(s, c, k + 1, delim)

\* re.sub(r'delim(.+?)delim', open \1 close, s)
RECURSIVE DelimSubFrom(_, _, _, _, _)
DelimSubFrom(s, i, delim, open, close) ==
    IF i > Len(s) THEN <<>>
    ELSE LET c == i + Len(delim)
             k == IF StartsWithAt(s, i, delim) THEN LazyLen(s, c, 1, delim) ELSE 0
         IN  IF k = 0
             THEN <<s[i]>> \o DelimSubFrom(s, i + 1, delim, open, close)
             ELSE open \o SubSeq(s, c, c + k - 1) \o close
                  \o DelimSubFrom(s, c + k + Len(delim), delim, open, close)

DelimSub(s, delim, open, close) == DelimSubFrom(s, 1, delim, open, close)

\* \[(.+?)\]\((.+?)\) tried at position i: <<k1, k2>>, the lengths of the two
\* groups, <<0, 0>> if there is no match
RECURSIVE LinkLens(_, _, _)
LinkLens(s, i, k1) ==
    IF i + k1 > Len(s) \/ s[i + k1] = NL THEN <<0, 0>>
    ELSE LET k2 == IF StartsWithAt(s, i + k1 + 1, <<"]", "(">>)
                   THEN LazyLen(s, i + k1 + 3, 1, <<")">>) ELSE 0
         IN  IF k2 > 0 THEN <<k1, k2>> ELSE LinkLens(s, i, k1 + 1)

\* re.sub(r'\[(.+?)\]\((.+?)\)', r'<a href="\2">\1</a>', s)
RECURSIVE LinkSubFrom(_, _)
LinkSubFrom(s, i) ==
    IF i > Len(s) THEN <<>>
    ELSE LET ks == IF s[i] = "[" THEN LinkLens(s, i, 1) ELSE <<0, 0>>
             u  == i + ks[1] + 3
         IN  IF ks[1] = 0
             THEN <<s[i]>> \o LinkSubFrom(s, i + 1)
             ELSE <<"<", "a", " ", "h", "r", "e", "f", "=", "\"">>
                  \o SubSeq(s, u, u + ks[2] - 1)
                  \o <<"\"", ">">>
                  \o SubSeq(s, i + 1, i + ks[1])
                  \o <<"<", "/", "a", ">">>
                  \o LinkSubFrom(s, u + ks[2] + 1)

LinkSub(s) == LinkSubFrom(s, 1)

\* number of '-' characters from position i on
RECURSIVE DashRun(_, _)
DashRun(s, i) == IF i <= Len(s) /\ s[i] = "-" THEN 1 + DashRun(s, i + 1) ELSE 0

\* re.sub(r'^---+$', '<hr>', s, flags=re.MULTILINE)
RECURSIVE RuleSubFrom(_, _)
RuleSubFrom(s, i) ==
    IF i > Len(s) THEN <<>>
    ELSE LET n == IF AtLineStart(s, i) THEN DashRun(s, i) ELSE 0
         IN  IF n >= 3 /\ (i + n > Len(s) \/ s[i + n] = NL)
             THEN <<"<", "h", "r", ">">> \o RuleSubFrom(s, i + n)
             ELSE <<s[i]>> \o RuleSubFrom(s, i + 1)

RuleSub(s) == RuleSubFrom(s, 1)

LiOpen == <<"<", "l", "i", ">">>
LiClose == <<"<", "/", "l", "i", ">">>

\* <li>.+</li>\n tried at position i: the position after the match, 0 if none.
\* .+ cannot cross a line break, so </li> must end the line that <li> starts.
LiLineEnd(s, i) ==
    LET e == LineEnd(s, i)
    IN  IF /\ StartsWithAt(s, i, LiOpen)
           /\ e < Len(s)
           /\ e - i + 1 >= Len(LiOpen) + 1 + Len(LiClose)
           /\ StartsWithAt(s, e - Len(LiClose) + 1, LiClose)
        THEN e + 2 ELSE 0

\* (<li>.+</li>\n)+ tried at position i: the position after the longest match
RECURSIVE LiRunEnd(_, _)
LiRunEnd(s, i) ==
    LET n == LiLineEnd(s, i)
    IN  IF n = 0 THEN i ELSE LiRunEnd(s, n)

\* re.sub(r'(<li>.+</li>\n)+', r'<ul>\g<0></ul>', s)
RECURSIVE ListWrapFrom(_, _)
ListWrapFrom(s, i) ==
    IF i > Len(s) THEN <<>>
    ELSE LET e == LiRunEnd(s, i)
         IN  IF e = i
             THEN <<s[i]>> \o ListWrapFrom(s, i + 1)
             ELSE <<"<", "u", "l", ">">> \o SubSeq(s, i, e - 1)
                  \o <<"<", "/", "u", "l", ">">> \o ListWrapFrom(s, e)

ListWrap(s) == ListWrapFrom(s, 1)

(***************************************************************************)
(* convert_table and the table scan of markdown_to_html.                   *)
(***************************************************************************)
\* line.split('|')[1:-1], each cell stripped
Cells(line) ==
    LET parts == Split(line, <<"|">>)
    IN  [k \in 1..(Len(parts) - 2) |-> Strip(parts[k + 1])]

\* the rows kept by convert_table: lines containing '---' are skipped, and so
\* are lines whose cell list is empty
RECURSIVE TableRows(_)
TableRows(ls) ==
    IF Len(ls) = 0 THEN <<>>
    ELSE IF Contains(ls[1], <<"-", "-", "-">>) THEN TableRows(Tail(ls))
    ELSE IF Len(Cells(ls[1])) = 0 THEN TableRows(Tail(ls))
    ELSE <<Cells(ls[1])>> \o TableRows(Tail(ls))

\* ''.join(f'<tag>{c}</tag>' for c in row)
RECURSIVE CellsHtml(_, _)
CellsHtml(row, tag) ==
    IF Len(row) = 0 THEN <<>>
    ELSE <<"<", "t", tag, ">">> \o row[1] \o <<"<", "/", "t", tag, ">">>
         \o CellsHtml(Tail(row), tag)

RowHtml(row, tag) ==
    <<" ", " ", "<", "t", "r", ">">> \o CellsHtml(row, tag)
    \o <<"<", "/", "t", "r", ">", NL>>

RECURSIVE BodyHtml(_)
BodyHtml(rows) ==
    IF Len(rows) = 0 THEN <<>> ELSE RowHtml(rows[1], "d") \o BodyHtml(Tail(rows))

convert_table(ls) ==
    LET rows == TableRows(ls)
    IN  IF Len(rows) = 0 THEN <<>>
        ELSE <<"<", "t", "a", "b", "l", "e", ">", NL>>
             \o RowHtml(rows[1], "h")
             \o BodyHtml(Tail(rows))
             \o <<"<", "/", "t", "a", "b", "l", "e", ">">>

HasPipe(line) == \E k \in 1..Len(line) : line[k] = "|"

\* the loop over lines, from line k on, with the loop's variables
RECURSIVE ScanTables(_, _, _, _, _)
ScanTables(ls, k, in_table, table_lines, res) ==
    IF k > Len(ls)
    THEN IF in_table THEN Append(res, convert_table(table_lines)) ELSE res
    ELSE IF HasPipe(ls[k]) /\ ~in_table
         THEN ScanTables(ls, k + 1, TRUE, <<ls[k]>>, res)
    ELSE IF HasPipe(ls[k]) /\ in_table
         THEN ScanTables(ls, k + 1, TRUE, Append(table_lines, ls[k]), res)
    ELSE IF in_table
         THEN ScanTables(ls, k + 1, FALSE, <<>>,
                  IF Len(Strip(ls[k])) > 0
                  THEN Append(Append(res, convert_table(table_lines)), ls[k])
                  ELSE Append(res, convert_table(table_lines)))
    ELSE ScanTables(ls, k + 1, FALSE, <<>>, Append(res, ls[k]))

TableScan(ls) == ScanTables(ls, 1, FALSE, <<>>, <<>>)

(***************************************************************************)
(* Paragraph wrapping.                                                     *)
(***************************************************************************)
WrapBlock(block) ==
    LET b == Strip(block)
    IN  IF Len(b) > 0 /\ ~StartsWith(b, <<"<">>) /\ ~StartsWith(b, <<"-", "-", "-">>)
        THEN <<"<", "p", ">">> \o b \o <<"<", "/", "p", ">">>
        ELSE b

WrapBlocks(blocks) == [k \in 1..Len(blocks) |-> WrapBlock(blocks[k])]

(***************************************************************************)
(* Title extraction.                                                       *)
(***************************************************************************)
DefaultTitle == <<"A", "I", " ", "B", "r", "i", "e", "f", "i", "n", "g">>

\* re.search(r'^#\s+(.+)$', s, re.MULTILINE): the first position that matches
RECURSIVE TitleFrom(_, _)
TitleFrom(s, i) ==
    IF i > Len(s) THEN DefaultTitle
    ELSE LET g == PrefixGroupStart(s, i, <<"#">>)
         IN  IF g = 0 THEN TitleFrom(s, i + 1) ELSE SubSeq(s, g, LineEnd(s, g))

ExtractTitle(s) == TitleFrom(s, 1)

(***************************************************************************)
(* The statements of markdown_to_html, in order.                           *)
(***************************************************************************)
H3Sub(s) == PrefixSub(s, <<"#", "#", "#">>, <<"<", "h", "3", ">">>, <<"<", "/", "h", "3", ">">>)
H2Sub(s) == PrefixSub(s, <<"#", "#">>, <<"<", "h", "2", ">">>, <<"<", "/", "h", "2", ">">>)
H1Sub(s) == PrefixSub(s, <<"#">>, <<"<", "h", "1", ">">>, <<"<", "/", "h", "1", ">">>)

StrongOpen == <<"<", "s", "t", "r", "o", "n", "g", ">">>
StrongClose == <<"<", "/", "s", "t", "r", "o", "n", "g", ">">>
EmOpen == <<"<", "e", "m", ">">>
EmClose == <<"<", "/", "e", "m", ">">>

BoldItalicSub(s) == DelimSub(s, <<"*", "*", "*">>, StrongOpen \o EmOpen, EmClose \o StrongClose)
BoldSub(s) == DelimSub(s, <<"*", "*">>, StrongOpen, StrongClose)
ItalicSub(s) == DelimSub(s, <<"*">>, EmOpen, EmClose)

QuoteOpen == <<"<", "b", "l", "o", "c", "k", "q", "u", "o", "t", "e", ">", "<", "p", ">">>
QuoteClose == <<"<", "/", "p", ">", "<", "/", "b", "l", "o", "c", "k", "q", "u", "o", "t", "e", ">">>

BlockquoteSub(s) == PrefixSub(s, <<">">>, QuoteOpen, QuoteClose)

\* the backquote character, which a TLA+ string cannot hold
Backquote == "BACKQUOTE"

CodeSub(s) == DelimSub(s, <<Backquote>>, <<"<", "c", "o", "d", "e", ">">>, <<"<", "/", "c", "o", "d", "e", ">">>)

ListItemSub(s) == PrefixSub(s, <<"-">>, LiOpen, LiClose)

Tables(s) == Join(TableScan(Split(s, <<NL>>)), <<NL>>)

Paragraphs(s) == Join(WrapBlocks(Split(s, <<NL, NL>>)), <<NL, NL>>)

\* the body returned by markdown_to_html
ConvertBody(s) ==
    Paragraphs(ListWrap(ListItemSub(RuleSub(Tables(CodeSub(LinkSub(BlockquoteSub(
        ItalicSub(BoldSub(BoldItalicSub(H1Sub(H2Sub(H3Sub(s))))))))))))))

markdown_to_html(s) == <<ExtractTitle(s), ConvertBody(s)>>

(***************************************************************************)
(* The texts given to markdown_to_html.                                    *)
(***************************************************************************)
StringsOver(alphabet, n) == UNION {[1..k -> alphabet] : k \in 0..n}

\* every text of at most MaxLen characters over the block markers
FreeTexts == StringsOver({"#", " ", "a", "*", ">", "-", "|", NL}, MaxLen)

\* every line of at most MaxEmLen asterisks and letters
EmphasisTexts == StringsOver({"*", "a"}, MaxEmLen)

CellTexts == {<<"a">>, <<"b">>, <<"a", "-", "-", "-", "b">>}

CellRows == UNION {[1..n -> CellTexts] : n \in 1..MaxCols}

\* | c1 | c2 |
RECURSIVE RowTail(_)
RowTail(row) ==
    IF Len(row) = 0 THEN <<>>
    ELSE <<" ">> \o row[1] \o <<" ", "|">> \o RowTail(Tail(row))

RowText(row) == <<"|">> \o RowTail(row)

\* |---|---|
SeparatorText(n) == <<"|">> \o Join([k \in 1..n |-> <<"-", "-", "-", "|">>], <<>>)

\* a header row, a separator row and one data row with as many columns
TableBlock(h, d) ==
    RowText(h) \o <<NL>> \o SeparatorText(Len(h)) \o <<NL>> \o RowText(d)

\* what follows the table: nothing, a line, or a blank line and a line
TableSuffixes == {<<>>, <<NL, "a">>, <<NL, NL, "a">>, <<NL, " ", NL, "a">>}

TableTexts ==
    {TableBlock(h, d) \o x :
        h \in CellRows, d \in {r \in CellRows : TRUE}, x \in TableSuffixes}

\* links and code spans
InlineTexts ==
    { <<"[", "a", "]", "(", "b", ")">>,
      <<"[", "a", "|", "b", "]", "(", "c", ")">>,
      <<"[", "a", "]", "(", "b", ")", "[", "c", "]", "(", "d", ")">>,
      <<"[", "a", "]", "[", "b", "]", "(", "c", ")">>,
      <<Backquote, "a", Backquote>>,
      <<Backquote, "a", Backquote, Backquote, "b", Backquote>>,
      <<"a", Backquote, "|", Backquote>> }

Texts == FreeTexts \cup EmphasisTexts \cup TableTexts \cup InlineTexts

(***************************************************************************)
(* The output directory and the command lines.                             *)
(***************************************************************************)
\* the content of a file that does not exist
Absent == [kind |-> "absent"]

IndexName == <<"i", "n", "d", "e", "x", ".", "h", "t", "m", "l">>

\* briefings written in markdown
MdNames == {<<"1", ".", "m", "d">>, <<"2", ".", "m", "d">>}

\* converted briefings; '-' sorts before '.', which sorts before '0'
PageNames ==
    { <<"1", ".", "h", "t", "m", "l">>,
      <<"1", "-", "2", ".", "h", "t", "m", "l">>,
      <<"1", "0", ".", "h", "t", "m", "l">> }

Names == MdNames \cup PageNames \cup {IndexName}

\* the one output directory of the model
SiteDir == "site"

NoCommand ==
    /\ files = [n \in Names |-> Absent]
    /\ op = "none"
    /\ argv = <<>>
    /\ rc = 0
    /\ out = "none"

\* the code point of the characters of the file names
Ord(c) ==
    CASE c = "-" -> 45 [] c = "." -> 46 [] c = "0" -> 48 [] c = "1" -> 49
      [] c = "2" -> 50 [] c = "d" -> 100 [] c = "e" -> 101 [] c = "h" -> 104
      [] c = "i" -> 105 [] c = "l" -> 108 [] c = "m" -> 109 [] c = "n" -> 110
      [] c = "t" -> 116 [] c = "x" -> 120

\* a < b for Python strings
RECURSIVE LexLess(_, _)
LexLess(a, b) ==
    IF Len(b) = 0 THEN FALSE
    ELSE IF Len(a) = 0 THEN TRUE
    ELSE IF a[1] = b[1] THEN LexLess(Tail(a), Tail(b))
    ELSE Ord(a[1]) < Ord(b[1])

\* sorted(S)
RECURSIVE Sorted(_)
Sorted(S) ==
    IF S = {} THEN <<>>
    ELSE LET m == CHOOSE x \in S : \A y \in S : x = y \/ LexLess(x, y)
         IN  <<m>> \o Sorted(S \ {m})

\* reversed(seq)
Reversed(seq) == [k \in 1..Len(seq) |-> seq[Len(seq) + 1 - k]]

HtmlSuffix == <<".", "h", "t", "m", "l">>

\* glob("*.html")
MatchesHtml(name) ==
    Len(name) >= Len(HtmlSuffix)
    /\ StartsWithAt(name, Len(name) - Len(HtmlSuffix) + 1, HtmlSuffix)

\* the position of the last '.', 0 if none
LastDot(name) ==
    LET dots == {k \in 1..Len(name) : name[k] = "."}
    IN  IF dots = {} THEN 0 ELSE CHOOSE k \in dots : \A j \in dots : j <= k

\* Path.stem
Stem(name) ==
    IF LastDot(name) <= 1 THEN name ELSE SubSeq(name, 1, LastDot(name) - 1)

\* HtmlFiles without the test f.name != "index.html"
HtmlFilesWithIndex(dir) ==
    Sorted({n \in DOMAIN dir : dir[n] # Absent /\ MatchesHtml(n)})

\* sorted([f for f in site_dir.glob("*.html") if f.name != "index.html"])
HtmlFiles(dir) ==
    Sorted({n \in DOMAIN dir : dir[n] # Absent /\ MatchesHtml(n) /\ n # IndexName})

\* the entries of the index page, newest first
IndexItems(dir) ==
    LET fs == Reversed(HtmlFiles(dir))
    IN  [k \in 1..Len(fs) |-> Stem(fs[k])]

\* HTML_TEMPLATE.format(count=..., items=..., update_time=...)
IndexPage(dir, now) ==
    [kind |-> "index",
     count |-> Len(HtmlFiles(dir)),
     items |-> IndexItems(dir),
     placeholder |-> Len(IndexItems(dir)) = 0,
     update_time |-> now]

(***************************************************************************)
(* markdown_to_html, one statement at a time.                              *)
(***************************************************************************)
InitMd ==
    /\ md_text \in Texts
    /\ html = md_text
    /\ html_in = md_text
    /\ title = <<>>
    /\ lines = <<>>
    /\ result = <<>>
    /\ paragraphs = <<>>
    /\ pc = "title"
    /\ NoCommand

\* html = f(html)
Assign(at, new, next) ==
    /\ pc = at
    /\ html_in' = html
    /\ html' = new
    /\ pc' = next
    /\ UNCHANGED <<md_text, title, lines, result, paragraphs>>
    /\ UNCHANGED clivars

TitleStep ==
    /\ pc = "title"
    /\ title' = ExtractTitle(html)
    /\ pc' = "h3"
    /\ UNCHANGED <<md_text, html, html_in, lines, result, paragraphs>>
    /\ UNCHANGED clivars

H3Step == Assign("h3", H3Sub(html), "h2")

H2Step == Assign("h2", H2Sub(html), "h1")

H1Step == Assign("h1", H1Sub(html), "bolditalic")

BoldItalicStep == Assign("bolditalic", BoldItalicSub(html), "bold")

BoldStep == Assign("bold", BoldSub(html), "italic")

ItalicStep == Assign("italic", ItalicSub(html), "blockquote")

BlockquoteStep == Assign("blockquote", BlockquoteSub(html), "links")

LinkStep == Assign("links", LinkSub(html), "code")

CodeStep == Assign("code", CodeSub(html), "tables")

TableStep ==
    /\ pc = "tables"
    /\ lines' = Split(html, <<NL>>)
    /\ result' = TableScan(lines')
    /\ html_in' = html
    /\ html' = Join(result', <<NL>>)
    /\ pc' = "rule"
    /\ UNCHANGED <<md_text, title, paragraphs>>
    /\ UNCHANGED clivars

RuleStep == Assign("rule", RuleSub(html), "li")

ListItemStep == Assign("li", ListItemSub(html), "ul")

ListWrapStep == Assign("ul", ListWrap(html), "paragraphs")

ParagraphStep ==
    /\ pc = "paragraphs"
    /\ paragraphs' = WrapBlocks(Split(html, <<NL, NL>>))
    /\ html_in' = html
    /\ html' = Join(paragraphs', <<NL, NL>>)
    /\ pc' = "done"
    /\ UNCHANGED <<md_text, title, lines, result>>
    /\ UNCHANGED clivars

NextMd ==
    \/ TitleStep
    \/ H3Step
    \/ H2Step
    \/ H1Step
    \/ BoldItalicStep
    \/ BoldStep
    \/ ItalicStep
    \/ BlockquoteStep
    \/ LinkStep
    \/ CodeStep
    \/ TableStep
    \/ RuleStep
    \/ ListItemStep
    \/ ListWrapStep
    \/ ParagraphStep

Spec == InitMd /\ [][NextMd]_vars

(***************************************************************************)
(* Vocabulary of the properties.                                           *)
(***************************************************************************)
\* the positions of s where p starts
Occurrences(s, p) == {i \in 1..Len(s) : StartsWithAt(s, i, p)}

\* s without its tags (everything from a '<' to the next '>')
RECURSIVE Untagged(_, _, _)
Untagged(s, i, inside) ==
    IF i > Len(s) THEN <<>>
    ELSE IF inside THEN Untagged(s, i + 1, s[i] # ">")
    ELSE IF s[i] = "<" THEN Untagged(s, i + 1, TRUE)
    ELSE <<s[i]>> \o Untagged(s, i + 1, FALSE)

\* the statement applied to every line on its own
PerLine(F(_), s) ==
    LET ls == Split(s, <<NL>>)
    IN  Join([k \in 1..Len(ls) |-> F(ls[k])], <<NL>>)

StructuralTags ==
    { <<"<", "h", "1", ">">>, <<"<", "h", "2", ">">>, <<"<", "h", "3", ">">>,
      LiOpen, <<"<", "b", "l", "o", "c", "k", "q", "u", "o", "t", "e", ">">> }

\* C1: a heading, list-item or blockquote element is never inside a paragraph
\* element added by the paragraph-wrapping step.
C1_NoElementInsideParagraph ==
    pc = "done" =>
        LET blocks == Split(html_in, <<NL, NL>>)
        IN  \A k \in 1..Len(blocks) :
                paragraphs[k] # Strip(blocks[k]) =>
                    \A t \in StructuralTags : ~Contains(blocks[k], t)

\* C2: a block of a header row, a separator row and one data row with as many
\* columns becomes one table with one row of <th> cells holding the header
\* texts and one row of <td> cells holding the data texts.
C2_TableRoundTrip ==
    pc = "done" =>
        \A h \in CellRows : \A d \in CellRows :
            (Len(h) = Len(d) /\ md_text = TableBlock(h, d)) =>
                /\ Cardinality(Occurrences(html, <<"<", "t", "a", "b", "l", "e", ">">>)) = 1
                /\ Cardinality(Occurrences(html, <<"<", "t", "r", ">">>)) = 2
                /\ Cardinality(Occurrences(html, <<"<", "t", "h", ">">>)) = Len(h)
                /\ Cardinality(Occurrences(html, <<"<", "t", "d", ">">>)) = Len(d)
                /\ \A k \in 1..Len(h) :
                       Contains(html, <<"<", "t", "h", ">">> \o h[k] \o <<"<", "/", "t", "h", ">">>)
                /\ \A k \in 1..Len(d) :
                       Contains(html, <<"<", "t", "d", ">">> \o d[k] \o <<"<", "/", "t", "d", ">">>)

\* the **text** spans of s: <<i, j>> with ** at i and at j and, in between, a
\* non-empty text without asterisk or line break
BoldSpans(s) ==
    {ij \in (1..Len(s)) \X (1..Len(s)) :
        /\ ij[1] + 2 < ij[2]
        /\ StartsWithAt(s, ij[1], <<"*", "*">>)
        /\ StartsWithAt(s, ij[2], <<"*", "*">>)
        /\ \A k \in (ij[1] + 2)..(ij[2] - 1) : s[k] \notin {"*", NL}}

\* element e occurs in s with no asterisk right before or right after it
OccursClean(s, e) ==
    \E i \in Occurrences(s, e) :
        /\ (i = 1 \/ s[i - 1] # "*")
        /\ (i + Len(e) > Len(s) \/ s[i + Len(e)] # "*")

\* C3: every **text** span becomes a <strong> element wrapping exactly the
\* text (alone or as bold italic), and no asterisk of the span or next to it
\* remains, whatever other asterisks are on the line. Stated of html as the
\* emphasis statements leave it; no later statement adds a <strong> element.
C3_BoldSpanConverted ==
    pc = "blockquote" =>
        \A ij \in BoldSpans(md_text) :
            LET text == SubSeq(md_text, ij[1] + 2, ij[2] - 1)
            IN  \/ OccursClean(html, StrongOpen \o text \o StrongClose)
                \/ OccursClean(html, StrongOpen \o EmOpen \o text \o EmClose \o StrongClose)

\* the title the claim describes: the text of the first line that, taken on
\* its own, is a '#', whitespace and text
RECURSIVE LineTitle(_)
LineTitle(ls) ==
    IF Len(ls) = 0 THEN DefaultTitle
    ELSE LET g == PrefixGroupStart(ls[1], 1, <<"#">>)
         IN  IF g = 0 THEN LineTitle(Tail(ls)) ELSE From(ls[1], g)

\* C4: the title is the text of the first line made of one '#', whitespace
\* and text on that same line, and "AI Briefing" if there is no such line.
C4_TitleFromOneLine ==
    pc # "title" => title = LineTitle(Split(md_text, <<NL>>))

\* C7: after the list step every <li> lies inside a <ul>, and a run of items
\* is not split over two containers.
C7_EveryItemInList ==
    pc = "paragraphs" =>
        /\ \A i \in Occurrences(html, LiOpen) :
               Cardinality({j \in Occurrences(html, <<"<", "u", "l", ">">>) : j < i})
                   > Cardinality({j \in Occurrences(html, <<"<", "/", "u", "l", ">">>) : j < i})
        /\ ~Contains(html, <<"<", "/", "u", "l", ">">> \o LiOpen)

\* the number of entries of result that the lines before line k must produce:
\* one per line without '|' and one per run of lines with '|'
EntriesBefore(ls, k) ==
    Cardinality({j \in 1..(k - 1) : ~HasPipe(ls[j])})
    + Cardinality({j \in 1..(k - 1) : HasPipe(ls[j]) /\ (j = 1 \/ ~HasPipe(ls[j - 1]))})

\* C8: the line without '|' that ends a run of table lines is re-emitted right
\* after the rendered table, also when it is empty or blank.
C8_TerminatorPreserved ==
    pc = "rule" =>
        \A k \in 2..Len(lines) :
            (HasPipe(lines[k - 1]) /\ ~HasPipe(lines[k])) =>
                /\ EntriesBefore(lines, k) + 1 <= Len(result)
                /\ result[EntriesBefore(lines, k) + 1] = lines[k]

\* C9: the header, blockquote and list statements convert each line on its
\* own: the result is the statement applied line by line.
C9_LineByLine ==
    /\ pc = "h2" => html = PerLine(H3Sub, html_in)
    /\ pc = "h1" => html = PerLine(H2Sub, html_in)
    /\ pc = "bolditalic" => html = PerLine(H1Sub, html_in)
    /\ pc = "links" => html = PerLine(BlockquoteSub, html_in)
    /\ pc = "ul" => html = PerLine(ListItemSub, html_in)

\* the cell texts of a line made of letters and inner dashes only
PlainParts(line) ==
    LET parts == Split(line, <<"|">>)
    IN  {Strip(parts[k]) : k \in 1..Len(parts)} \cap
            {t \in {Strip(parts[k]) : k \in 1..Len(parts)} :
                /\ \E i \in 1..Len(t) : t[i] \in {"a", "b"}
                /\ \A i \in 1..Len(t) : t[i] \in {"a", "b", "-"}}

\* C10: the text of a line holding '|' that is not made of dashes and
\* delimiters only is present in the output.
C10_NoTableTextDropped ==
    pc = "done" =>
        LET ls == Split(md_text, <<NL>>)
        IN  \A k \in 1..Len(ls) :
                HasPipe(ls[k]) =>
                    \A t \in PlainParts(ls[k]) : Contains(Untagged(html, 1, FALSE), t)

(***************************************************************************)
(* The two command lines, each run as a whole.                             *)
(***************************************************************************)
MaxTime == 2

\* the markdown briefings of the model
CliTexts == {<<"#", " ", "a">>, <<"a", NL, "-", " ", "b">>}

MdFile(text) == [kind |-> "md", text |-> text]

\* markdown_to_html(md_text) for the briefings of the model
Converted == [t \in CliTexts |-> markdown_to_html(t)]

\* HTML_TEMPLATE.format(title=title, content=html_content)
BriefingPage(text) ==
    [kind |-> "page", title |-> Converted[text][1], content |-> Converted[text][2]]

\* the arguments tried in position k of the converter's command line
ConvertArg(k) ==
    IF k = 1 THEN MdNames
    ELSE IF k = 2 THEN PageNames \cup {IndexName}
    ELSE {IndexName}

ConvertArgvs ==
    UNION {{a \in [1..n -> Names] : \A k \in 1..n : a[k] \in ConvertArg(k)} : n \in 0..MaxArgs}

IndexArgvs == UNION {[1..n -> {SiteDir}] : n \in 0..MaxArgs}

InitCli ==
    /\ files \in {f \in [Names -> {Absent} \cup {MdFile(t) : t \in CliTexts}] :
                     \A n \in Names \ MdNames : f[n] = Absent}
    /\ op = "none"
    /\ argv = <<>>
    /\ rc = 0
    /\ out = "none"
    /\ pc = "idle"
    /\ md_text = <<>>
    /\ html = <<>>
    /\ html_in = <<>>
    /\ title = <<>>
    /\ lines = <<>>
    /\ result = <<>>
    /\ paragraphs = <<>>

\* sys.argv has fewer than two arguments after the program name
ConvertUsage(a) == Len(a) < 2

\* main with a bare "return" after the not-found message: the exit status is 0
main_NotFoundExitsZero(a) ==
    /\ op' = "convert"
    /\ argv' = a
    /\ IF ConvertUsage(a)
       THEN /\ out' = "usage"
            /\ rc' = 1
            /\ files' = files
       ELSE IF files[a[1]] = Absent
       THEN /\ out' = "notfound"
            /\ rc' = 0
            /\ files' = files
       ELSE /\ files' = [files EXCEPT ![a[2]] = BriefingPage(files[a[1]].text)]
            /\ out' = "converted"
            /\ rc' = 0
    /\ UNCHANGED mdvars

\* main() of md_to_html.py with sys.argv[1:] = a
main(a) ==
    /\ op' = "convert"
    /\ argv' = a
    /\ IF ConvertUsage(a)
       THEN /\ out' = "usage"
            /\ rc' = 1
            /\ files' = files
       ELSE IF files[a[1]] = Absent
       THEN /\ out' = "notfound"
            /\ rc' = 1
            /\ files' = files
       ELSE /\ files' = [files EXCEPT ![a[2]] = BriefingPage(files[a[1]].text)]
            /\ out' = "converted"
            /\ rc' = 0
    /\ UNCHANGED mdvars

Convert == \E a \in ConvertArgvs : main(a)

\* generate_index(output_dir) at time now
generate_index(dir, now) == [dir EXCEPT ![IndexName] = IndexPage(dir, now)]

\* the command line of generate_index.py with sys.argv[1:] = a
GenerateIndex ==
    \E a \in IndexArgvs : \E now \in 1..MaxTime :
        /\ op' = "generate_index"
        /\ argv' = a
        /\ IF Len(a) < 1
           THEN /\ out' = "usage"
                /\ rc' = 1
                /\ files' = files
           ELSE /\ files' = generate_index(files, now)
                /\ out' = "generated"
                /\ rc' = 0
        /\ UNCHANGED mdvars

NextCli ==
    \/ Convert
    \/ GenerateIndex

SpecCli == InitCli /\ [][NextCli]_vars

(***************************************************************************)
(* Properties of the command lines.                                        *)
(***************************************************************************)
\* the .html files of the directory other than index.html
Briefings(dir) ==
    {n \in DOMAIN dir : dir[n] # Absent /\ MatchesHtml(n) /\ n # IndexName}

\* index page ix lists exactly the briefings of dir, once each, highest file
\* name first, and reports their number
ListsBriefings(ix, dir) ==
    /\ ix.kind = "index"
    /\ \A n \in Briefings(dir) : \E k \in 1..Len(ix.items) : ix.items[k] \o HtmlSuffix = n
    /\ \A k \in 1..Len(ix.items) : ix.items[k] \o HtmlSuffix \in Briefings(dir)
    /\ \A i \in 1..Len(ix.items) : \A j \in 1..Len(ix.items) :
           i < j => LexLess(ix.items[j] \o HtmlSuffix, ix.items[i] \o HtmlSuffix)
    /\ ix.count = Len(ix.items)

IndexWritten == op = "generate_index" /\ rc = 0

\* C5: every run of generate-index writes an index that lists exactly once
\* each .html file other than index.html, in descending file-name order, with
\* a count equal to the number of entries; a run right after another run
\* writes the same list and count.
C5_IndexListsBriefings ==
    [][IndexWritten' =>
          /\ ListsBriefings(files'[IndexName], files')
          /\ IndexWritten =>
                /\ files'[IndexName].items = files[IndexName].items
                /\ files'[IndexName].count = files[IndexName].count]_vars

\* generate-index has run over the three briefings: 10.html, then 1.html,
\* then 1-2.html
C5_Witness ==
    /\ IndexWritten
    /\ files[IndexName].kind = "index"
    /\ files[IndexName].count = 3
    /\ files[IndexName].items = <<<<"1", "0">>, <<"1">>, <<"1", "-", "2">>>>

\* what the converter does when it refuses to convert
Refused ==
    /\ rc' = 1
    /\ out' \in {"usage", "notfound"}
    /\ files' = files

\* what a successful run has done
Written ==
    /\ Len(argv') >= 2
    /\ files'[argv'[2]].kind = "page"
    /\ out' = "converted"

\* C6, for fewer than two arguments: the converter exits 1 with a message,
\* and leaves every file alone, when fewer than two arguments are given or
\* the input file does not exist; it exits 0 only after writing the output
\* file.
C6_ConverterExits ==
    [][op' = "convert" =>
          /\ (Len(argv') < 2 \/ files[argv'[1]] = Absent) => Refused
          /\ rc' = 0 => Written]_vars

\* C6, for any argument count other than two: the converter exits 1 with a
\* message, and leaves every file alone, when it is not given exactly two
\* arguments or the input file does not exist; it exits 0 only after writing
\* the output file.
C6_ExactlyTwoArguments ==
    [][op' = "convert" =>
          /\ (Len(argv') # 2 \/ files[argv'[1]] = Absent) => Refused
          /\ rc' = 0 => Written]_vars

\* the converter was given two arguments and found no input file
C6_Witness ==
    /\ op = "convert"
    /\ Len(argv) = 2
    /\ files[argv[1]] = Absent
    /\ files[argv[2]] = Absent
    /\ rc = 1
    /\ out = "notfound"

====
